---- MODULE Spec2Model ----
(***************************************************************************)
(* Model of nerdbank-qrcodes/src/lib.rs: the two exported entry points     *)
(* decode_qr_code_from_file and decode_qr_code_from_image, and the helper  *)
(* process_result that copies the decoded text, re-encoded as UTF-16, into *)
(* a caller-owned buffer.                                                  *)
(*                                                                         *)
(* Caller threads (Calls) each own one output buffer; the buffers lie      *)
(* back to back in one address space `mem`, so that a write past the end   *)
(* of one buffer lands in the neighbour's buffer (or in the guard unit     *)
(* after the last one).  The copy loop of process_result is modelled one   *)
(* iteration per step, so calls of different threads interleave.           *)
(* The image loader and the barcode decoder are external libraries: their  *)
(* outcome is a nondeterministic choice.                                   *)
(***************************************************************************)
EXTENDS Integers, Sequences, FiniteSets

\* ---------------------------------------------------------------- bounds
MaxTextUnits == 2      \* UTF-16 code units of a decoded text
MaxCap == 2            \* largest declared capacity (decoded_length)
MaxPathLen == 2        \* code units in a file path
MaxCalls == 2          \* calls made in one run, over all threads

\* Two caller threads, each with its own output buffer.
Calls == {1, 2}

\* ------------------------------------------------------- status constants
QR_DECODE_NO_QR_CODE == 0
INVALID_UTF16_STRING == -1
QR_DECODE_ERROR == -3

\* Variant: the load failure of from_image reported as a decode error.
IMAGE_ERROR_AsDecodeError == QR_DECODE_ERROR

IMAGE_ERROR == -2

StatusCodes == {QR_DECODE_NO_QR_CODE, INVALID_UTF16_STRING, IMAGE_ERROR, QR_DECODE_ERROR}

\* ------------------------------------------------------------ UTF-16
\* Unicode scalar values a decoded text is drawn from: 'H' (one code unit)
\* and U+1F600 (a surrogate pair).
CodePoints == {72, 128512}

\* Code units a caller may put in a path: 'A', a high and a low surrogate.
PathUnits == {65, 55357, 56832}

\* Contents of caller memory before the first call (0xFFFF).
FillerUnits == {65535}

IsHighSurrogate(u) == u >= 55296 /\ u <= 56319
IsLowSurrogate(u) == u >= 56320 /\ u <= 57343

\* Variant: the low surrogate keeps 8 instead of 10 bits of the offset.
EncodeChar_BadLowSurrogate(cp) ==
  IF cp < 65536
    THEN <<cp>>
    ELSE <<55296 + ((cp - 65536) \div 1024), 56320 + ((cp - 65536) % 256)>>

\* char::encode_utf16 for one scalar value.
EncodeChar(cp) ==
  IF cp < 65536
    THEN <<cp>>
    ELSE <<55296 + ((cp - 65536) \div 1024), 56320 + ((cp - 65536) % 1024)>>

\* str::encode_utf16: the code units of the text, in order.
RECURSIVE encode_utf16(_)
encode_utf16(text) ==
  IF text = <<>> THEN <<>>
  ELSE EncodeChar(Head(text)) \o encode_utf16(Tail(text))

\* Variant: a lossy decode, which accepts every sequence of code units.
Utf16Decode_Lossy(units) == [ok |-> TRUE, text |-> units]

\* UTF_16LE.decode(bytes, DecoderTrap::Strict): Ok(text) for well-formed
\* UTF-16, Err for an unpaired surrogate.
RECURSIVE Utf16Decode(_)
Utf16Decode(units) ==
  IF units = <<>> THEN [ok |-> TRUE, text |-> <<>>]
  ELSE
    LET u == Head(units) IN
    IF IsHighSurrogate(u)
      THEN IF Len(units) >= 2 /\ IsLowSurrogate(units[2])
             THEN LET rest == Utf16Decode(Tail(Tail(units))) IN
                  [ok |-> rest.ok,
                   text |-> <<65536 + (u - 55296) * 1024 + (units[2] - 56320)>> \o rest.text]
             ELSE [ok |-> FALSE, text |-> <<>>]
    ELSE IF IsLowSurrogate(u)
      THEN [ok |-> FALSE, text |-> <<>>]
    ELSE LET rest == Utf16Decode(Tail(units)) IN
         [ok |-> rest.ok, text |-> <<u>> \o rest.text]

\* What the caller supplied: well-formed UTF-16 is a sequence in which every
\* surrogate is half of a high-low pair.
WellFormedUtf16(units) ==
  \A k \in 1..Len(units) :
    /\ (units[k] >= 55296 /\ units[k] <= 56319) =>
         (k < Len(units) /\ units[k + 1] >= 56320 /\ units[k + 1] <= 57343)
    /\ (units[k] >= 56320 /\ units[k] <= 57343) =>
         (k > 1 /\ units[k - 1] >= 55296 /\ units[k - 1] <= 56319)

\* -------------------------------------------------- external outcomes
SeqsUpTo(S, n) == UNION {[1..k -> S] : k \in 0..n}

\* The texts the reader may produce: those that encode to at most
\* MaxTextUnits code units.
Texts == {t \in SeqsUpTo(CodePoints, MaxTextUnits) : Len(encode_utf16(t)) <= MaxTextUnits}
Paths == SeqsUpTo(PathUnits, MaxPathLen)

\* Variants of rxing::Exceptions that reach process_result.
ReaderExceptions == {"NotFoundException", "FormatException"}
LoaderExceptions == {"IllegalArgumentException"}

OkResult(t) == [ok |-> TRUE, text |-> t, kind |-> "none"]
ErrResult(k) == [ok |-> FALSE, text |-> <<>>, kind |-> k]
NoResult == ErrResult("none")

\* Outcomes of the barcode reader on a loaded image.
ReaderResults == {OkResult(t) : t \in Texts} \cup {ErrResult(k) : k \in ReaderExceptions}

\* rxing::helpers::detect_in_file on a file that cannot be opened as an
\* image: an Err that is not NotFoundException.
FileLoadFailures == {ErrResult(k) : k \in LoaderExceptions}

\* ------------------------------------------------------------ state
VARIABLES
  mem,            \* caller memory: address -> code unit
  cap,            \* cap[c]: declared capacity (decoded_length) of c's buffer
  pc,             \* "idle", "process", "loop", "done"
  entry,          \* "none", "file", "image"
  pathValid,      \* the supplied file_path is well-formed UTF-16
  loaded,         \* the image loader produced an image
  r,              \* the Result handed to process_result
  content,        \* r.getText().encode_utf16()
  idx,            \* position of the enumerate() iterator
  content_len,    \* the counter of process_result
  ret,            \* the value returned to the caller (read when pc = "done")
  prior,          \* contents of c's buffer when the call began
  written,        \* buffer indices the call has stored to
  loaderInvoked,  \* the call reached the image loader
  decoderInvoked, \* the call reached the barcode reader
  ncalls          \* calls started so far

vars == <<mem, cap, pc, entry, pathValid, loaded, r, content, idx, content_len,
          ret, prior, written, loaderInvoked, decoderInvoked, ncalls>>

MemSize == Cardinality(Calls) * MaxCap + 1

\* Address of the first unit of c's buffer (the pointer `decoded`).
RECURSIVE Base(_)
Base(c) == IF c = 1 THEN 0 ELSE Base(c - 1) + cap[c - 1]

\* The units of c's buffer, as a sequence of cap[c] code units.
Buffer(c) == [k \in 1..cap[c] |-> mem[Base(c) + k - 1]]

Init ==
  /\ mem \in [0..(MemSize - 1) -> FillerUnits]
  /\ cap \in [Calls -> 0..MaxCap]
  /\ pc = [c \in Calls |-> "idle"]
  /\ entry = [c \in Calls |-> "none"]
  /\ pathValid = [c \in Calls |-> FALSE]
  /\ loaded = [c \in Calls |-> FALSE]
  /\ r = [c \in Calls |-> NoResult]
  /\ content = [c \in Calls |-> <<>>]
  /\ idx = [c \in Calls |-> 0]
  /\ content_len = [c \in Calls |-> 0]
  /\ ret = [c \in Calls |-> 0]
  /\ prior = [c \in Calls |-> <<>>]
  /\ written = [c \in Calls |-> {}]
  /\ loaderInvoked = [c \in Calls |-> FALSE]
  /\ decoderInvoked = [c \in Calls |-> FALSE]
  /\ ncalls = 0

\* ------------------------------------------------------------ actions
\* What every entry point does on entry: a new call of thread c begins.
Begin(c, e) ==
  /\ pc[c] = "idle"
  /\ ncalls < MaxCalls
  /\ ncalls' = ncalls + 1
  /\ entry' = [entry EXCEPT ![c] = e]
  /\ prior' = [prior EXCEPT ![c] = Buffer(c)]
  /\ written' = [written EXCEPT ![c] = {}]
  /\ content' = [content EXCEPT ![c] = <<>>]
  /\ idx' = [idx EXCEPT ![c] = 0]
  /\ content_len' = [content_len EXCEPT ![c] = 0]

\* decode_qr_code_from_file, up to the call of process_result.
decode_qr_code_from_file(c) ==
  /\ Begin(c, "file")
  /\ \E p \in Paths :
       LET file_path == Utf16Decode(p) IN
       /\ pathValid' = [pathValid EXCEPT ![c] = WellFormedUtf16(p)]
       /\ IF ~file_path.ok
            THEN /\ ret' = [ret EXCEPT ![c] = INVALID_UTF16_STRING]
                 /\ pc' = [pc EXCEPT ![c] = "done"]
                 /\ loaded' = [loaded EXCEPT ![c] = FALSE]
                 /\ r' = [r EXCEPT ![c] = NoResult]
                 /\ loaderInvoked' = [loaderInvoked EXCEPT ![c] = FALSE]
                 /\ decoderInvoked' = [decoderInvoked EXCEPT ![c] = FALSE]
            ELSE \* rxing::helpers::detect_in_file opens the file, then reads it
                 /\ \E l \in BOOLEAN :
                      /\ loaded' = [loaded EXCEPT ![c] = l]
                      /\ decoderInvoked' = [decoderInvoked EXCEPT ![c] = l]
                      /\ \E res \in (IF l THEN ReaderResults ELSE FileLoadFailures) :
                           r' = [r EXCEPT ![c] = res]
                 /\ loaderInvoked' = [loaderInvoked EXCEPT ![c] = TRUE]
                 /\ ret' = [ret EXCEPT ![c] = 0]
                 /\ pc' = [pc EXCEPT ![c] = "process"]
  /\ UNCHANGED <<mem, cap>>

\* decode_qr_code_from_image, up to the call of process_result.
decode_qr_code_from_image(c) ==
  /\ Begin(c, "image")
  /\ pathValid' = [pathValid EXCEPT ![c] = FALSE]
  /\ loaderInvoked' = [loaderInvoked EXCEPT ![c] = TRUE]
  /\ \E l \in BOOLEAN :   \* image::load_from_memory(image_buffer)
       /\ loaded' = [loaded EXCEPT ![c] = l]
       /\ IF l
            THEN /\ \E res \in ReaderResults : r' = [r EXCEPT ![c] = res]
                 /\ decoderInvoked' = [decoderInvoked EXCEPT ![c] = TRUE]
                 /\ ret' = [ret EXCEPT ![c] = 0]
                 /\ pc' = [pc EXCEPT ![c] = "process"]
            ELSE /\ r' = [r EXCEPT ![c] = NoResult]
                 /\ decoderInvoked' = [decoderInvoked EXCEPT ![c] = FALSE]
                 /\ ret' = [ret EXCEPT ![c] = IMAGE_ERROR]
                 /\ pc' = [pc EXCEPT ![c] = "done"]
  /\ UNCHANGED <<mem, cap>>

\* Variant: NotFoundException not told apart from the other exceptions.
ErrorStatus_NoNotFound(kind) == QR_DECODE_ERROR

\* The Err arm of process_result.
ErrorStatus(kind) ==
  IF kind = "NotFoundException" THEN QR_DECODE_NO_QR_CODE ELSE QR_DECODE_ERROR

\* process_result: the match on r.
process_result(c) ==
  /\ pc[c] = "process"
  /\ IF r[c].ok
       THEN /\ content' = [content EXCEPT ![c] = encode_utf16(r[c].text)]
            /\ idx' = [idx EXCEPT ![c] = 0]
            /\ content_len' = [content_len EXCEPT ![c] = 0]
            /\ pc' = [pc EXCEPT ![c] = "loop"]
            /\ UNCHANGED ret
       ELSE /\ ret' = [ret EXCEPT ![c] = ErrorStatus(r[c].kind)]
            /\ pc' = [pc EXCEPT ![c] = "done"]
            /\ UNCHANGED <<content, idx, content_len>>
  /\ UNCHANGED <<mem, cap, entry, pathValid, loaded, r, prior, written,
                 loaderInvoked, decoderInvoked, ncalls>>

\* Variants of the guard: no bounds test, a test that admits the index
\* decoded_length, and a test that stops one unit early.
ShouldWrite_Always(i, decoded_length) == TRUE
ShouldWrite_OffByOne(i, decoded_length) == i <= decoded_length
ShouldWrite_StopsEarly(i, decoded_length) == i + 1 < decoded_length

\* The test that guards the store in the copy loop.
ShouldWrite(i, decoded_length) == i < decoded_length

\* One iteration of `for (i, c) in content.enumerate()`.
CopyUnit(c) ==
  /\ pc[c] = "loop"
  /\ idx[c] < Len(content[c])
  /\ IF ShouldWrite(idx[c], cap[c])
       THEN /\ mem' = [mem EXCEPT ![Base(c) + idx[c]] = content[c][idx[c] + 1]]
            /\ written' = [written EXCEPT ![c] = @ \cup {idx[c]}]
       ELSE UNCHANGED <<mem, written>>
  /\ content_len' = [content_len EXCEPT ![c] = @ + 1]
  /\ idx' = [idx EXCEPT ![c] = @ + 1]
  /\ UNCHANGED <<cap, pc, entry, pathValid, loaded, r, content, ret, prior,
                 loaderInvoked, decoderInvoked, ncalls>>

\* Variant: the number of units stored instead of the number needed.
OkStatus_StoredCount(len, decoded_length) ==
  IF len < decoded_length THEN len ELSE decoded_length

\* The value of the Ok arm.
OkStatus(len, decoded_length) == len

\* The iterator is exhausted: process_result returns content_len.
CopyDone(c) ==
  /\ pc[c] = "loop"
  /\ idx[c] = Len(content[c])
  /\ ret' = [ret EXCEPT ![c] = OkStatus(content_len[c], cap[c])]
  /\ pc' = [pc EXCEPT ![c] = "done"]
  /\ UNCHANGED <<mem, cap, entry, pathValid, loaded, r, content, idx, content_len,
                 prior, written, loaderInvoked, decoderInvoked, ncalls>>

\* The caller has read the result; the thread may call again.  Nothing of
\* the finished call survives except what it stored in the buffer.
Return(c) ==
  /\ pc[c] = "done"
  /\ ncalls < MaxCalls
  /\ pc' = [pc EXCEPT ![c] = "idle"]
  /\ entry' = [entry EXCEPT ![c] = "none"]
  /\ pathValid' = [pathValid EXCEPT ![c] = FALSE]
  /\ loaded' = [loaded EXCEPT ![c] = FALSE]
  /\ r' = [r EXCEPT ![c] = NoResult]
  /\ content' = [content EXCEPT ![c] = <<>>]
  /\ idx' = [idx EXCEPT ![c] = 0]
  /\ content_len' = [content_len EXCEPT ![c] = 0]
  /\ ret' = [ret EXCEPT ![c] = 0]
  /\ prior' = [prior EXCEPT ![c] = <<>>]
  /\ written' = [written EXCEPT ![c] = {}]
  /\ loaderInvoked' = [loaderInvoked EXCEPT ![c] = FALSE]
  /\ decoderInvoked' = [decoderInvoked EXCEPT ![c] = FALSE]
  /\ UNCHANGED <<mem, cap, ncalls>>

Next ==
  \E c \in Calls :
    \/ decode_qr_code_from_file(c)
    \/ decode_qr_code_from_image(c)
    \/ process_result(c)
    \/ CopyUnit(c)
    \/ CopyDone(c)
    \/ Return(c)

Spec == Init /\ [][Next]_vars

\* ------------------------------------------------------------ properties
Done(c) == pc[c] = "done"

\* The call ended in the Ok arm of process_result.
Succeeded(c) == Done(c) /\ r[c].ok

\* The UTF-16 encoding of the text the reader produced, and its length.
Encoded(c) == encode_utf16(r[c].text)
Required(c) == Len(Encoded(c))

\* Address a lies in c's buffer; address a lies in no buffer.
InRegion(a, c) == a >= Base(c) /\ a < Base(c) + cap[c]
Outside(a) == \A c \in Calls : ~InRegion(a, c)

\* C1: no call ever stores an output code unit at an index >= decoded_length,
\* whatever the text and the capacity (0 included): every index stored to is
\* below the capacity and memory outside the buffers keeps its contents.
C1_NoWritePastCapacity ==
  /\ \A c \in Calls : \A i \in written[c] : i < cap[c]
  /\ \A a \in 0..(MemSize - 1) : Outside(a) => mem[a] \in FillerUnits

C1_Witness ==
  \E c \in Calls, d \in Calls :
    /\ Succeeded(c) /\ entry[c] = "image" /\ cap[c] = 0 /\ Required(c) > 0
    /\ Succeeded(d) /\ entry[d] = "file" /\ cap[d] > 0 /\ Required(d) > cap[d]

\* C2: best-effort mode.  When the text needs L code units and the capacity
\* is C < L, the call stores exactly the first C units of the encoding at
\* indices 0..C-1 and returns L.
C2_TruncateReturnsRequired ==
  \A c \in Calls :
    Succeeded(c) =>
      LET enc == Encoded(c) IN
      cap[c] < Len(enc) =>
        /\ Buffer(c) = SubSeq(enc, 1, cap[c])
        /\ written[c] = 0..(cap[c] - 1)
        /\ ret[c] = Len(enc)

C2_Witness ==
  \E c \in Calls :
    /\ Succeeded(c) /\ cap[c] = 1 /\ r[c].text = <<128512>> /\ ret[c] = 2
    /\ Buffer(c) = <<55357>>

\* C3 (as claimed): strict mode.  When the text needs more units than the
\* capacity the call returns a buffer-overflow status, a negative value that
\* is none of the other statuses, and the buffer keeps its prior contents.
C3_StrictModeSupported ==
  \A c \in Calls :
    (Succeeded(c) /\ Required(c) > cap[c]) =>
      /\ ret[c] < 0
      /\ ret[c] \notin StatusCodes
      /\ Buffer(c) = prior[c]

\* C3 (amended): there is no strict mode.  On overflow the call returns the
\* required length, which exceeds the capacity and is none of the status
\* codes, and every unit of the buffer has been stored to.
C3_OverflowReportedByLength ==
  \A c \in Calls :
    Succeeded(c) =>
      LET enc == Encoded(c) IN
      Len(enc) > cap[c] =>
        /\ ret[c] > cap[c]
        /\ ret[c] > 0
        /\ ret[c] \notin StatusCodes
        /\ \A k \in 1..cap[c] : (k - 1) \in written[c] /\ mem[Base(c) + k - 1] = enc[k]

C3_Witness ==
  \E c \in Calls :
    /\ Succeeded(c) /\ cap[c] = 1 /\ r[c].text = <<72, 72>>
    /\ Buffer(c) # prior[c]

\* C4: when the text needs L units and the capacity is C >= L, the call
\* returns L, indices 0..L-1 hold the UTF-16 encoding of the text, decoding
\* them gives the text back, and indices L..C-1 keep their prior value.
C4_FitsExactCopy ==
  \A c \in Calls :
    Succeeded(c) =>
      LET enc == Encoded(c)
          out == SubSeq(Buffer(c), 1, ret[c])
      IN
      cap[c] >= Len(enc) =>
        /\ ret[c] = Len(enc)
        /\ out = enc
        /\ Utf16Decode(out) = [ok |-> TRUE, text |-> r[c].text]
        /\ \A k \in (Len(enc) + 1)..cap[c] : mem[Base(c) + k - 1] = prior[c][k]

C4_Witness ==
  \E c \in Calls, d \in Calls :
    /\ Succeeded(c) /\ r[c].text = <<128512>> /\ cap[c] = 2
    /\ Succeeded(d) /\ r[d].text = <<72>> /\ cap[d] = 2 /\ Buffer(d)[2] = prior[d][2]

\* C5: a from_file call whose path is not well-formed UTF-16 returns
\* INVALID_UTF16_STRING (-1), leaves the buffer unchanged and reaches
\* neither the image loader nor the barcode reader.
C5_InvalidPathRejected ==
  \A c \in Calls :
    (Done(c) /\ entry[c] = "file" /\ ~pathValid[c]) =>
      /\ ret[c] = -1
      /\ ret[c] = INVALID_UTF16_STRING
      /\ written[c] = {}
      /\ Buffer(c) = prior[c]
      /\ ~loaderInvoked[c]
      /\ ~decoderInvoked[c]

C5_Witness ==
  \E c \in Calls :
    /\ Done(c) /\ entry[c] = "file" /\ ~pathValid[c]
    /\ cap[c] > 0

\* C6: from either entry point, a NotFoundException of the reader gives the
\* return value QR_DECODE_NO_QR_CODE, which is none of the error statuses,
\* and the buffer is unchanged.
C6_NotFoundStatus ==
  \A c \in Calls :
    (Done(c) /\ r[c].kind = "NotFoundException") =>
      /\ ret[c] = QR_DECODE_NO_QR_CODE
      /\ ret[c] \notin {INVALID_UTF16_STRING, IMAGE_ERROR, QR_DECODE_ERROR}
      /\ written[c] = {}
      /\ Buffer(c) = prior[c]

C6_Witness ==
  \E c \in Calls, d \in Calls :
    /\ Done(c) /\ entry[c] = "file" /\ r[c].kind = "NotFoundException" /\ cap[c] > 0
    /\ Done(d) /\ entry[d] = "image" /\ r[d].kind = "NotFoundException"

\* Which of the five conditions of the taxonomy a finished call ended in.
Condition(c) ==
  IF entry[c] = "file" /\ ~pathValid[c] THEN "invalid input string"
  ELSE IF ~loaded[c] THEN "image-load failure"
  ELSE IF r[c].ok THEN "success"
  ELSE IF r[c].kind = "NotFoundException" THEN "no barcode detected"
  ELSE "content decode failure"

\* C7 (as claimed): the return value alone tells the five conditions apart:
\* two finished calls that ended in different conditions returned different
\* values.
C7_ReturnValueDistinguishesConditions ==
  \A c \in Calls, d \in Calls :
    (Done(c) /\ Done(d) /\ Condition(c) # Condition(d)) => ret[c] # ret[d]

\* C8 (as claimed): a from_file call whose path is well-formed but whose
\* file cannot be loaded as an image returns IMAGE_ERROR, not QR_DECODE_ERROR
\* and not QR_DECODE_NO_QR_CODE.
C8_FileLoadFailureIsImageError ==
  \A c \in Calls :
    (Done(c) /\ entry[c] = "file" /\ pathValid[c] /\ ~loaded[c]) =>
      /\ ret[c] = IMAGE_ERROR
      /\ ret[c] # QR_DECODE_ERROR
      /\ ret[c] # QR_DECODE_NO_QR_CODE

\* C9: a from_image call whose image fails to load returns IMAGE_ERROR (-2),
\* never reaches the barcode reader and leaves the buffer unchanged.
C9_ImageLoadFailure ==
  \A c \in Calls :
    (Done(c) /\ entry[c] = "image" /\ ~loaded[c]) =>
      /\ ret[c] = -2
      /\ ~decoderInvoked[c]
      /\ written[c] = {}
      /\ Buffer(c) = prior[c]

C9_Witness ==
  \E c \in Calls :
    /\ Done(c) /\ entry[c] = "image" /\ ~loaded[c] /\ cap[c] > 0
    /\ \E k \in 1..cap[c] : prior[c][k] \notin FillerUnits

\* What a call with the inputs of c produces when it runs with no other call
\* in progress: its return value and the final contents of its buffer.
Overlay(units, buf) ==
  [k \in 1..Len(buf) |-> IF k <= Len(units) THEN units[k] ELSE buf[k]]

AloneResult(c) ==
  IF entry[c] = "file" /\ ~pathValid[c] THEN <<-1, prior[c]>>
  ELSE IF entry[c] = "image" /\ ~loaded[c] THEN <<-2, prior[c]>>
  ELSE IF r[c].ok THEN <<Required(c), Overlay(Encoded(c), prior[c])>>
  ELSE IF r[c].kind = "NotFoundException" THEN <<0, prior[c]>>
  ELSE <<-3, prior[c]>>

\* C10: calls are independent.  However the calls of the two threads
\* interleave or follow one another, a finished call has the return value and
\* buffer contents it has when run alone, a call in its copy loop has changed
\* its buffer only by its own stores, and no call stores into the buffer of
\* another.
C10_CallsIndependent ==
  /\ \A c \in Calls : Done(c) => <<ret[c], Buffer(c)>> = AloneResult(c)
  /\ \A c \in Calls :
       pc[c] = "loop" => Buffer(c) = Overlay(SubSeq(content[c], 1, idx[c]), prior[c])
  /\ \A c \in Calls, d \in Calls :
       c # d => \A i \in written[c] : ~InRegion(Base(c) + i, d)

C10_Witness ==
  /\ \A c \in Calls : pc[c] = "loop" /\ idx[c] >= 1 /\ idx[c] < Len(content[c])
  /\ \A c \in Calls : written[c] # {} /\ cap[c] = MaxCap
  /\ entry[1] # entry[2]

====
